---- MODULE Spec2Model ----
(***************************************************************************)
(* Model of the ERC-8004 tail-risk agent.                                  *)
(*                                                                         *)
(*  - Spec      : the decision loop, agent/src/agent_loop.py (AgentLoop),  *)
(*                driven by the lifespan of agent/src/api.py.              *)
(*  - SpecRisk  : the signal aggregation, agent/risk_engine.py             *)
(*                (RiskEngine.get_current_risk and its six sources).       *)
(*  - SpecScan  : one policy scan, started inside a cycle.                 *)
(*  - SpecComposite, SpecFallback : the composite of given signals.        *)
(*  - SpecClaim  : the claim evaluation, agent/src/claude_agent.py.        *)
(*  - SpecQuote  : the premium pricing, agent/llm_pricer.py.               *)
(*  - SpecPlan   : the rebalance plan, agent/rebalancer.py.                *)
(*  - SpecTail   : the scoring engine, agent/src/tail_risk_agent.          *)
(*                                                                         *)
(* Time is in seconds.  Confidence is in hundredths (0.7 is 70).           *)
(* The loop runs as one asyncio task: it can be interleaved with other     *)
(* coroutines only where it is suspended in an await (the oracle fetch,    *)
(* the LLM call, the sleep); the web3 calls are synchronous and block the  *)
(* event loop.                                                             *)
(***************************************************************************)
EXTENDS Integers, Sequences, FiniteSets, TLC

VARIABLES
    \* ---- AgentLoop fields (agent_loop.py 39-49)
    running,            \* self._running
    last_vol_update,    \* self._last_vol_update
    cycle_count,        \* self._cycle_count
    stats,              \* self._stats
    \* ---- the loop task
    pc,                 \* where the task started by start() is
    policy_id,          \* loop variable of _scan_policies
    current_vol,        \* local of _scan_policies (chain volatility index)
    policy,             \* local of _scan_policies (result of get_policy)
    decision,           \* local of _scan_policies (result of assess_claim)
    response,           \* local of assess_claim (what the model replied)
    scan_error,         \* id of the policy whose iteration has just ended in the
                        \* except clause of _scan_policies, else 0
    trust_score,        \* local of _cycle
    \* ---- collaborators
    now,                \* time.time()
    last_reading,       \* VolatilityOracle._last_reading (its timestamp)
    inflight,           \* pay_claim calls that have not returned, per policy id
    policy_count,       \* slots of the vault's policies mapping that can hold a policy
    \* ---- observation of the latest cycle
    active_cycles,      \* cycles that began and have not finished
    vol_submitted,      \* update_volatility was called in this cycle
    assessed,           \* policy ids handed to assess_claim in this cycle
    submitted,          \* policy ids handed to pay_claim in this cycle, in order
    last_submit,        \* outcome of the latest submission of this cycle
    cycle_outcome,      \* how the latest cycle ended
    cancelled_at,       \* where the task was when it was cancelled
    \* ---- RiskEngine.get_current_risk (agent/risk_engine.py)
    fetch,              \* what each data feed did in the latest aggregation
    signals,            \* valid_signals of the latest aggregation
    risk,               \* the composite returned by the latest aggregation
    degraded,           \* the same aggregation with one source failing
    \* ---- claim evaluation (agent/src/claude_agent.py)
    claim_in,           \* the arguments of the evaluation
    claim_out,          \* what the entry point returned, or that it raised
    \* ---- premium pricing (agent/llm_pricer.py)
    quote_in,           \* the arguments of price_premium
    quote_out,          \* the quote it returned
    quote_prev,         \* the quote the call before returned for the same arguments
    plan_in,            \* the argument of trigger_defensive_rebalance
    plan_out,           \* the rebalance plan it returned
    tail_in,            \* the inputs handed to TailRiskEngine.score, in order
    tail_out            \* the outputs it returned for them

loopVars == <<running, last_vol_update, cycle_count, stats, pc, policy_id,
              current_vol, policy, decision, response, scan_error, trust_score, now, last_reading,
              inflight, active_cycles, vol_submitted, assessed, submitted,
              last_submit, cycle_outcome, cancelled_at, policy_count>>

riskVars == <<fetch, signals, risk, degraded>>

claimVars == <<claim_in, claim_out>>

quoteVars == <<quote_in, quote_out, quote_prev>>

planVars == <<plan_in, plan_out>>

tailVars == <<tail_in, tail_out>>

vars == <<running, last_vol_update, cycle_count, stats, pc, policy_id,
          current_vol, policy, decision, response, scan_error, trust_score, now, last_reading,
          inflight, active_cycles, vol_submitted, assessed, submitted,
          last_submit, cycle_outcome, cancelled_at, policy_count, fetch, signals,
          risk, degraded, claim_in, claim_out, quote_in, quote_out, quote_prev,
          plan_in, plan_out, tail_in, tail_out>>

None == "none"
NoValue == -1

(***************************************************************************)
(* Bounds of the model.                                                    *)
(***************************************************************************)
MaxCycles == 6
NumPolicies == 2
MaxAssessed == 2

(***************************************************************************)
(* Settings (agent/src/config.py) and literals of agent_loop.py.           *)
(***************************************************************************)
min_trust_score == 6000
poll_interval_seconds == 60
volatility_update_interval == 300
auto_claim_enabled == TRUE
cache_ttl == 300
ScanLimit == 100
ConfidenceGate == 70
ACTIVE == 0

(***************************************************************************)
(* Inputs of the collaborators.                                            *)
(***************************************************************************)
\* getOverallScore(agent_id).call(): an RPC error, or a score
TrustResults ==
    {[raised |-> TRUE, value |-> 0]}
      \cup [raised : {FALSE}, value : {min_trust_score - 1, min_trust_score}]
\* get_volatility_index(): an RPC error, or the on-chain index
ChainVolResults ==
    {[raised |-> TRUE, value |-> 0]} \cup [raised : {FALSE}, value : {7499, 7500}]
Thresholds == {7500}
SubmitResults == {"ok", "failed"}
\* seconds a submission takes: none, or as long as one poll interval
SubmitDelays == {0, poll_interval_seconds}
NoPolicy == [raised |-> FALSE, holder |-> "none", status |-> 0, triggerThreshold |-> 0]
PolicyRaised == [raised |-> TRUE, holder |-> "none", status |-> 0, triggerThreshold |-> 0]
EmptySlot == [raised |-> FALSE, holder |-> "zero", status |-> 0, triggerThreshold |-> 0]
ExistingPolicies ==
    [raised : {FALSE}, holder : {"holder"}, status : 0..3, triggerThreshold : Thresholds]
\* get_policy(id): an RPC error, an empty slot, or a policy; ids above
\* policy_count are empty slots
PolicyResults(id) ==
    IF id <= policy_count THEN {PolicyRaised, EmptySlot} \cup ExistingPolicies
    ELSE {EmptySlot}
\* what assess_claim returns (it catches its own failures)
NoDecision == [should_pay |-> FALSE, confidence |-> NoValue]
\* what the model does when assess_claim invokes it (risk_engine.py 166-172):
\* the call raises, the reply is not the JSON object asked for, or it is one;
\* such a reply may leave out should_pay or confidence, and its reasoning may
\* be something else than text
NoResponse == [kind |-> "none", should_pay |-> "absent", confidence |-> NoValue,
               reasoning |-> "absent"]
Responses ==
    [kind : {"raised", "unparsable"}, should_pay : {"absent"}, confidence : {NoValue},
     reasoning : {"absent"}]
      \cup [kind : {"json"}, should_pay : {"true"}, confidence : {NoValue, 69, 70},
            reasoning : {"text"}]
      \cup [kind : {"json"}, should_pay : {"absent", "false"}, confidence : {70},
            reasoning : {"text"}]
      \cup [kind : {"json"}, should_pay : {"true"}, confidence : {70},
            reasoning : {"null"}]
NoSubmit == [kind |-> "none", id |-> 0, ok |-> FALSE]

InitStats == [cycles |-> 0, vol_updates |-> 0, claims_assessed |-> 0,
              claims_paid |-> 0, claims_rejected |-> 0, errors |-> 0]

\* AgentLoop.__init__ 39-49 and the collaborators before start()
InitLoop ==
    /\ running = FALSE
    /\ last_vol_update = 0
    /\ cycle_count = 0
    /\ stats = InitStats
    /\ pc = "idle"
    /\ policy_id = 0
    /\ current_vol = NoValue
    /\ policy = NoPolicy
    /\ decision = NoDecision
    /\ response = NoResponse
    /\ scan_error = 0
    /\ trust_score = NoValue
    /\ now = volatility_update_interval
    /\ last_reading = NoValue
    /\ policy_count = NumPolicies
    /\ inflight = [i \in 1..NumPolicies |-> 0]
    /\ active_cycles = {}
    /\ vol_submitted = FALSE
    /\ assessed = {}
    /\ submitted = << >>
    /\ last_submit = NoSubmit
    /\ cycle_outcome = None
    /\ cancelled_at = None

(***************************************************************************)
(* The decision loop.                                                      *)
(***************************************************************************)

\* variant: the handler logs the error and does not count it
run_except_uncounted(st) == st

\* _run 74-76: the handler of an exception that left _cycle
run_except(st) == [st EXCEPT !.errors = @ + 1]

\* variant: the comparison of the trust gate is inverted
TrustAboveMinimum(t) == t > min_trust_score

\* _cycle 91: the trust gate
TrustBelowMinimum(t) == t < min_trust_score

\* _cycle 99: the refresh is due
VolUpdateDue(t, last) == t - last >= volatility_update_interval

\* variant: the gate needs a confidence strictly above the threshold
ShouldExecuteStrict(d) == d.should_pay /\ d.confidence > ConfidenceGate

\* _scan_policies 170: the execution gate
ShouldExecute(d) == d.should_pay /\ d.confidence >= ConfidenceGate

\* VolatilityOracle.get_volatility 55-60: the cached reading is still fresh
CacheFresh == last_reading # NoValue /\ now - last_reading < cache_ttl

\* _cycle has ended (returned, or raised into the handler of _run): the task
\* goes on to asyncio.sleep (_run 78)
CycleEnds(st, n, outcome) ==
    /\ stats' = IF outcome = "raised" THEN run_except(st) ELSE st
    /\ pc' = "sleep"
    /\ active_cycles' = active_cycles \ {n}
    /\ cycle_outcome' = outcome
    /\ policy_id' = 0
    /\ policy' = NoPolicy
    /\ current_vol' = NoValue

\* variant: the counters start afresh when the scan is over
ScanBreaksResets(st, n, r) ==
    /\ stats' = InitStats
    /\ pc' = "sleep"
    /\ active_cycles' = active_cycles \ {n}
    /\ cycle_outcome' = "completed"
    /\ policy_id' = 0
    /\ policy' = r
    /\ current_vol' = NoValue

\* _scan_policies 140-141: the slot holds no policy, the for loop breaks and
\* _cycle returns
ScanBreaks(st, n, r) ==
    /\ stats' = st
    /\ pc' = "sleep"
    /\ active_cycles' = active_cycles \ {n}
    /\ cycle_outcome' = "completed"
    /\ policy_id' = 0
    /\ policy' = r
    /\ current_vol' = NoValue

\* variant: the for loop has no upper end
ScanAtNoLimit(st, n, id) ==
    /\ stats' = st
    /\ pc' = "scan"
    /\ active_cycles' = active_cycles \cup {n}
    /\ cycle_outcome' = "in_progress"
    /\ policy_id' = id
    /\ policy' = NoPolicy
    /\ current_vol' = current_vol

\* the for loop of _scan_policies (135) moves to policy id `id`
ScanAt(st, n, id) ==
    IF id > ScanLimit
    THEN CycleEnds(st, n, "completed")
    ELSE /\ stats' = st
         /\ pc' = "scan"
         /\ active_cycles' = active_cycles \cup {n}
         /\ cycle_outcome' = "in_progress"
         /\ policy_id' = id
         /\ policy' = NoPolicy
         /\ current_vol' = current_vol

\* _cycle 103-104 and _scan_policies 130-131: read the chain index, then
\* await the oracle
EnterScan(st, n) ==
    IF ~auto_claim_enabled
    THEN CycleEnds(st, n, "completed")
    ELSE \E v \in ChainVolResults :
           IF v.raised
           THEN CycleEnds(st, n, "raised")
           ELSE /\ stats' = st
                /\ pc' = "scan_fetch"
                /\ active_cycles' = active_cycles \cup {n}
                /\ cycle_outcome' = "in_progress"
                /\ policy_id' = 0
                /\ policy' = NoPolicy
                /\ current_vol' = v.value

\* start() 51-62
Start ==
    /\ pc = "idle"
    /\ running' = TRUE
    /\ pc' = "loop_top"
    /\ UNCHANGED <<last_vol_update, cycle_count, stats, policy_id, current_vol,
                   policy, decision, response, scan_error, trust_score, now, last_reading, inflight,
                   active_cycles, vol_submitted, assessed, submitted,
                   last_submit, cycle_outcome, cancelled_at>>
    /\ UNCHANGED <<policy_count, riskVars, claimVars, quoteVars, planVars, tailVars>>

\* variant: the loop launches _cycle without awaiting it, so the next one
\* can begin while the task of the previous one is suspended in an await
CanStartCycleUnawaited ==
    running /\ pc \in {"loop_top", "vol_fetch", "scan_fetch", "assessing"}

\* _run 71-73: the loop awaits one _cycle at a time
CanStartCycle == pc = "loop_top" /\ running

\* _run 71 finds _running set, and _cycle 80-104 runs to its first await
CycleBegin ==
    /\ CanStartCycle
    /\ cycle_count < MaxCycles
    /\ cycle_count' = cycle_count + 1
    /\ vol_submitted' = FALSE
    /\ assessed' = {}
    /\ submitted' = << >>
    /\ last_submit' = NoSubmit
    /\ decision' = NoDecision
    /\ response' = NoResponse
    /\ scan_error' = 0
    /\ LET n == cycle_count + 1
           st == [stats EXCEPT !.cycles = n]
       IN \E t \in TrustResults :
            IF t.raised
            THEN /\ trust_score' = NoValue
                 /\ CycleEnds(st, n, "raised")
            ELSE /\ trust_score' = t.value
                 /\ IF TrustBelowMinimum(t.value)
                    THEN CycleEnds(st, n, "completed")
                    ELSE IF VolUpdateDue(now, last_vol_update)
                         THEN /\ stats' = st
                              /\ pc' = "vol_fetch"
                              /\ active_cycles' = active_cycles \cup {n}
                              /\ cycle_outcome' = "in_progress"
                              /\ UNCHANGED <<policy_id, policy, current_vol>>
                         ELSE EnterScan(st, n)
    /\ UNCHANGED <<running, last_vol_update, now, last_reading, inflight, cancelled_at>>
    /\ UNCHANGED <<policy_count, riskVars, claimVars, quoteVars, planVars, tailVars>>

\* _run 71 finds _running cleared: start() returns
LoopExit ==
    /\ pc = "loop_top"
    /\ ~running
    /\ pc' = "done"
    /\ UNCHANGED <<running, last_vol_update, cycle_count, stats, policy_id,
                   current_vol, policy, decision, response, scan_error, trust_score, now, last_reading,
                   inflight, active_cycles, vol_submitted, assessed, submitted,
                   last_submit, cycle_outcome, cancelled_at>>
    /\ UNCHANGED <<policy_count, riskVars, claimVars, quoteVars, planVars, tailVars>>

\* variant: the refresh timestamp is recorded before the submission is known
\* to have succeeded
UpdateVolatilityStampFirst ==
    /\ pc = "vol_fetch"
    /\ last_reading' = IF CacheFresh THEN last_reading ELSE now
    /\ vol_submitted' = TRUE
    /\ \E res \in SubmitResults, d \in SubmitDelays :
         /\ now' = now + d
         /\ last_submit' = [kind |-> "vol", id |-> 0, ok |-> (res = "ok")]
         /\ last_vol_update' = now + d
         /\ IF res = "ok"
            THEN EnterScan([stats EXCEPT !.vol_updates = @ + 1], cycle_count)
            ELSE CycleEnds(stats, cycle_count, "raised")
    /\ UNCHANGED <<running, cycle_count, trust_score, decision, response, scan_error, inflight,
                   assessed, submitted, cancelled_at>>
    /\ UNCHANGED <<policy_count, riskVars, claimVars, quoteVars, planVars, tailVars>>

\* _update_volatility 108-125: the oracle answers, the reading is pushed
UpdateVolatility ==
    /\ pc = "vol_fetch"
    /\ last_reading' = IF CacheFresh THEN last_reading ELSE now
    /\ vol_submitted' = TRUE
    /\ \E res \in SubmitResults, d \in SubmitDelays :
         /\ now' = now + d
         /\ last_submit' = [kind |-> "vol", id |-> 0, ok |-> (res = "ok")]
         /\ IF res = "ok"
            THEN /\ last_vol_update' = now + d
                 /\ EnterScan([stats EXCEPT !.vol_updates = @ + 1], cycle_count)
            ELSE /\ last_vol_update' = last_vol_update
                 /\ CycleEnds(stats, cycle_count, "raised")
    /\ UNCHANGED <<running, cycle_count, trust_score, decision, response, scan_error, inflight,
                   assessed, submitted, cancelled_at>>
    /\ UNCHANGED <<policy_count, riskVars, claimVars, quoteVars, planVars, tailVars>>

\* _scan_policies 131: the oracle answers, the for loop starts at id 1
ScanFetched ==
    /\ pc = "scan_fetch"
    /\ last_reading' = IF CacheFresh THEN last_reading ELSE now
    /\ ScanAt(stats, cycle_count, 1)
    /\ UNCHANGED <<running, last_vol_update, cycle_count, trust_score, decision, response, scan_error, now,
                   inflight, vol_submitted, assessed, submitted, last_submit,
                   cancelled_at>>
    /\ UNCHANGED <<policy_count, riskVars, claimVars, quoteVars, planVars, tailVars>>

\* _scan_policies 140: the slot has no holder
IsEmptySlot(r) == r.holder = "zero"

\* variant: a reply without confidence counts as fully confident
assess_claim_trusting(r) ==
    IF r.kind # "json"
    THEN [should_pay |-> FALSE, confidence |-> 0]
    ELSE [should_pay |-> r.should_pay = "true",
          confidence |-> IF r.confidence = NoValue THEN 100 ELSE r.confidence]

\* RiskEngine.assess_claim 165-187: the fields of the reply with the defaults
\* False and 0.5, or the conservative decision when anything raised
assess_claim(r) ==
    IF r.kind # "json"
    THEN [should_pay |-> FALSE, confidence |-> 0]
    ELSE [should_pay |-> r.should_pay = "true",
          confidence |-> IF r.confidence = NoValue THEN 50 ELSE r.confidence]

\* _scan_policies 161-168: the log call slices decision.reasoning, which
\* raises unless the reasoning is text (the fallback of assess_claim is)
LogsDecision(r) == r.reasoning # "null"

\* variant: the exception of one iteration leaves the for loop and _cycle
ScanExceptAborts(id) ==
    /\ scan_error' = id
    /\ CycleEnds(stats, cycle_count, "raised")

\* _scan_policies 173-175: the except clause inside the for loop; the loop
\* goes on with the next id
ScanExcept(id) ==
    /\ scan_error' = id
    /\ ScanAt(stats, cycle_count, id + 1)

\* _scan_policies 142: the status read is not Active
NotActive(r) == r.status # ACTIVE

\* variant: the comparison with the threshold is off by one
TriggerNotMetLoose(vol, r) == vol + 1 < r.triggerThreshold

\* _scan_policies 146: the chain index is below the threshold of the policy
TriggerNotMet(vol, r) == vol < r.triggerThreshold

\* _scan_policies 136-159 and 173-175: one policy id, up to the await of
\* assess_claim
ScanPolicy ==
    /\ pc = "scan"
    /\ \E r \in PolicyResults(policy_id) :
         IF r.raised
         THEN /\ ScanExcept(policy_id)
              /\ assessed' = assessed
         ELSE IF IsEmptySlot(r)
         THEN /\ ScanBreaks(stats, cycle_count, r)
              /\ assessed' = assessed
              /\ scan_error' = 0
         ELSE IF NotActive(r)
         THEN /\ ScanAt(stats, cycle_count, policy_id + 1)
              /\ assessed' = assessed
              /\ scan_error' = 0
         ELSE IF TriggerNotMet(current_vol, r)
         THEN /\ ScanAt(stats, cycle_count, policy_id + 1)
              /\ assessed' = assessed
              /\ scan_error' = 0
         ELSE /\ stats.claims_assessed < MaxAssessed
              /\ stats' = [stats EXCEPT !.claims_assessed = @ + 1]
              /\ pc' = "assessing"
              /\ policy' = r
              /\ assessed' = assessed \cup {policy_id}
              /\ scan_error' = 0
              /\ UNCHANGED <<active_cycles, cycle_outcome, policy_id, current_vol>>
    /\ decision' = NoDecision
    /\ response' = NoResponse
    /\ UNCHANGED <<running, last_vol_update, cycle_count, trust_score, now,
                   last_reading, inflight, vol_submitted, submitted, last_submit,
                   cancelled_at>>
    /\ UNCHANGED <<policy_count, riskVars, claimVars, quoteVars, planVars, tailVars>>

\* variant: the payout is sent without waiting for it to return, and the
\* scan goes on
ClaimAssessedNoWait ==
    /\ pc = "assessing"
    /\ \E r \in Responses :
         LET d == assess_claim(r)
         IN /\ response' = r
            /\ IF ~LogsDecision(r)
               THEN /\ decision' = NoDecision
                    /\ ScanExcept(policy_id)
                    /\ UNCHANGED <<inflight, submitted>>
               ELSE /\ decision' = d
                    /\ scan_error' = 0
                    /\ IF ShouldExecute(d)
                       THEN /\ inflight' = [inflight EXCEPT ![policy_id] = @ + 1]
                            /\ submitted' = Append(submitted, policy_id)
                       ELSE UNCHANGED <<inflight, submitted>>
                    /\ ScanAt(stats, cycle_count, policy_id + 1)
    /\ UNCHANGED <<running, last_vol_update, cycle_count, trust_score, now,
                   last_reading, vol_submitted, assessed, last_submit,
                   cancelled_at>>
    /\ UNCHANGED <<policy_count, riskVars, claimVars, quoteVars, planVars, tailVars>>

\* _scan_policies 151-175 and _execute_claim 179-184: the model replies and
\* assess_claim returns; the decision is logged and, past the gate, pay_claim
\* is called.  When the log call raises, the except clause ends the iteration
\* and the decision never reaches the gate
ClaimAssessed ==
    /\ pc = "assessing"
    /\ \E r \in Responses :
         LET d == assess_claim(r)
         IN /\ response' = r
            /\ IF ~LogsDecision(r)
               THEN /\ decision' = NoDecision
                    /\ ScanExcept(policy_id)
                    /\ UNCHANGED <<inflight, submitted>>
               ELSE /\ decision' = d
                    /\ IF ShouldExecute(d)
                       THEN /\ pc' = "paying"
                            /\ inflight' = [inflight EXCEPT ![policy_id] = @ + 1]
                            /\ submitted' = Append(submitted, policy_id)
                            /\ scan_error' = 0
                            /\ UNCHANGED <<stats, active_cycles, cycle_outcome,
                                           policy_id, policy, current_vol>>
                       ELSE /\ ScanAt(stats, cycle_count, policy_id + 1)
                            /\ scan_error' = 0
                            /\ UNCHANGED <<inflight, submitted>>
    /\ UNCHANGED <<running, last_vol_update, cycle_count, trust_score, now,
                   last_reading, vol_submitted, assessed, last_submit,
                   cancelled_at>>
    /\ UNCHANGED <<policy_count, riskVars, claimVars, quoteVars, planVars, tailVars>>

\* _execute_claim 184-190 with BlockchainClient._send_transaction 148-172:
\* pay_claim returns or raises
ClaimSubmitted ==
    /\ pc = "paying"
    /\ \E res \in SubmitResults :
         /\ last_submit' = [kind |-> "claim", id |-> policy_id, ok |-> (res = "ok")]
         /\ inflight' = [inflight EXCEPT ![policy_id] = @ - 1]
         /\ ScanAt(IF res = "ok"
                   THEN [stats EXCEPT !.claims_paid = @ + 1]
                   ELSE [stats EXCEPT !.claims_rejected = @ + 1],
                   cycle_count, policy_id + 1)
    /\ decision' = NoDecision
    /\ response' = NoResponse
    /\ scan_error' = 0
    /\ UNCHANGED <<running, last_vol_update, cycle_count, trust_score, now,
                   last_reading, vol_submitted, assessed, submitted, cancelled_at>>
    /\ UNCHANGED <<policy_count, riskVars, claimVars, quoteVars, planVars, tailVars>>

\* _run 78: asyncio.sleep returns; the locals of the cycle are gone
Slept ==
    /\ pc = "sleep"
    /\ now' = now + poll_interval_seconds
    /\ pc' = "loop_top"
    /\ trust_score' = NoValue
    /\ vol_submitted' = FALSE
    /\ assessed' = {}
    /\ submitted' = << >>
    /\ policy' = NoPolicy
    /\ scan_error' = 0
    /\ UNCHANGED <<running, last_vol_update, cycle_count, stats, policy_id,
                   current_vol, decision, response, last_reading, inflight,
                   active_cycles, last_submit, cycle_outcome, cancelled_at>>
    /\ UNCHANGED <<policy_count, riskVars, claimVars, quoteVars, planVars, tailVars>>

\* the task is suspended in an await, so another coroutine can run
Suspended ==
    \/ pc \in {"assessing", "sleep"}
    \/ pc \in {"vol_fetch", "scan_fetch"} /\ ~CacheFresh

\* stop() 64-67
Stop ==
    /\ Suspended
    /\ running
    /\ running' = FALSE
    /\ UNCHANGED <<last_vol_update, cycle_count, stats, pc, policy_id,
                   current_vol, policy, decision, response, scan_error, trust_score, now, last_reading,
                   inflight, active_cycles, vol_submitted, assessed, submitted,
                   last_submit, cycle_outcome, cancelled_at>>
    /\ UNCHANGED <<policy_count, riskVars, claimVars, quoteVars, planVars, tailVars>>

\* lifespan of api.py 74-77: stop(), then the task is cancelled where it waits
Shutdown ==
    /\ Suspended
    /\ running' = FALSE
    /\ pc' = "cancelled"
    /\ cancelled_at' = pc
    /\ UNCHANGED <<last_vol_update, cycle_count, stats, policy_id, current_vol,
                   policy, decision, response, scan_error, trust_score, now, last_reading, inflight,
                   active_cycles, vol_submitted, assessed, submitted,
                   last_submit, cycle_outcome>>
    /\ UNCHANGED <<policy_count, riskVars, claimVars, quoteVars, planVars, tailVars>>

Next ==
    \/ Start
    \/ CycleBegin
    \/ LoopExit
    \/ UpdateVolatility
    \/ ScanFetched
    \/ ScanPolicy
    \/ ClaimAssessed
    \/ ClaimSubmitted
    \/ Slept
    \/ Stop
    \/ Shutdown

TypeOK ==
    /\ running \in BOOLEAN
    /\ pc \in {"idle", "loop_top", "vol_fetch", "scan_fetch", "scan",
               "assessing", "paying", "sleep", "done", "cancelled"}
    /\ cycle_count \in 0..MaxCycles

(***************************************************************************)
(* The signal aggregation, agent/risk_engine.py.                           *)
(* Weights are in hundredths (0.20 is 20).  A raw reading is an integer in *)
(* a unit ten times finer than the score it is normalised to, so that the  *)
(* truncation of int() shows.                                              *)
(***************************************************************************)
\* RiskEngine.SIGNAL_WEIGHTS 41-48, in the order of the dict
signal_names == <<"realized_vol", "funding_rates", "liquidation_vol",
                  "tvl_drawdown", "stablecoin_depeg", "bridge_anomaly">>
SignalNames == {signal_names[i] : i \in 1..Len(signal_names)}
SIGNAL_WEIGHTS ==
    [n \in SignalNames |->
        CASE n = "realized_vol" -> 20
          [] n = "funding_rates" -> 15
          [] n = "liquidation_vol" -> 20
          [] n = "tvl_drawdown" -> 20
          [] n = "stablecoin_depeg" -> 15
          [] n = "bridge_anomaly" -> 10]

NoSignal == [name |-> "none", score |-> 0, weight |-> 0, kind |-> "none",
             exception |-> FALSE]
NoDegraded == [source |-> "none", risk_level |-> 0]
NoRisk == [computed |-> FALSE, risk_level |-> 0, black_swan_active |-> FALSE,
           premium_multiplier |-> 0, recommendation |-> "none"]

\* what a data feed did: the request failed (error, timeout, bad payload),
\* or it delivered a raw reading
FeedFailed == [failed |-> TRUE, short |-> FALSE, raw |-> 0]
FeedShort == [failed |-> FALSE, short |-> TRUE, raw |-> 0]
Feed(raws) == {FeedFailed} \cup [failed : {FALSE}, short : {FALSE}, raw : raws]
\* annualized volatility, in tenths of a percent
VolFeeds == Feed({0, 305, 1000, 6000})
\* TVL drawdown, in hundredths of a percent; fewer than two data points
TvlFeeds == Feed({-55, 0, 455, 810, 1500}) \cup {FeedShort}
\* largest peg deviation, in units of 1e-5
DepegFeeds == Feed({0, 10, 55, 250, 3000})
NoFetch == [realized_vol |-> FeedFailed, tvl_drawdown |-> FeedFailed,
            stablecoin_depeg |-> FeedFailed]

\* int(): truncation toward zero of n/d, d > 0
IntDiv(n, d) == IF n >= 0 THEN n \div d ELSE -((-n) \div d)
Min(a, b) == IF a <= b THEN a ELSE b
Max(a, b) == IF a >= b THEN a ELSE b

Signal(n, sc, k) ==
    [name |-> n, score |-> sc, weight |-> SIGNAL_WEIGHTS[n], kind |-> k,
     exception |-> FALSE]

\* _get_realized_vol 115-152
get_realized_vol(f) ==
    IF f.failed
    THEN Signal("realized_vol", 30, "estimated")
    ELSE Signal("realized_vol", Min(100, IntDiv(f.raw, 10)), "live")

\* _get_funding_rates 154-171: simulated_rate = 0.0003, here in units of 1e-4
get_funding_rates ==
    Signal("funding_rates", Min(100, IntDiv(3 * 50, 10)), "live")

\* _get_liquidation_volume 173-190
get_liquidation_volume ==
    Signal("liquidation_vol", Min(100, IntDiv(2500000 * 100, 100000000)), "live")

\* _get_tvl_drawdown 192-222
get_tvl_drawdown(f) ==
    IF f.failed
    THEN Signal("tvl_drawdown", 15, "estimated")
    ELSE IF f.short
    THEN Signal("tvl_drawdown", 10, "live")
    ELSE Signal("tvl_drawdown", Min(100, Max(0, IntDiv(f.raw, 10))), "live")

\* _get_stablecoin_depeg 224-259
get_stablecoin_depeg(f) ==
    IF f.failed
    THEN Signal("stablecoin_depeg", 5, "estimated")
    ELSE Signal("stablecoin_depeg", Min(100, IntDiv(f.raw, 10)), "live")

\* _get_bridge_anomaly 261-276
get_bridge_anomaly == Signal("bridge_anomaly", 10, "live")

\* get_current_risk 52-60: the results of asyncio.gather, in call order
Gather(f) ==
    <<get_realized_vol(f.realized_vol), get_funding_rates,
      get_liquidation_volume, get_tvl_drawdown(f.tvl_drawdown),
      get_stablecoin_depeg(f.stablecoin_depeg), get_bridge_anomaly>>

\* variant: the neutral signal carries the full weight 1.0 in place of the
\* weight of its source
ValidSignalsUnitWeight(results) ==
    [n \in SignalNames |->
        LET i == CHOOSE k \in 1..Len(signal_names) : signal_names[k] = n
        IN IF results[i].exception
           THEN [name |-> n, score |-> 25, weight |-> 100,
                 kind |-> "neutral", exception |-> FALSE]
           ELSE results[i]]

\* get_current_risk 62-75: a result that is an exception is replaced by the
\* neutral signal
ValidSignals(results) ==
    [n \in SignalNames |->
        LET i == CHOOSE k \in 1..Len(signal_names) : signal_names[k] = n
        IN IF results[i].exception
           THEN [name |-> n, score |-> 25, weight |-> SIGNAL_WEIGHTS[n],
                 kind |-> "neutral", exception |-> FALSE]
           ELSE results[i]]

\* sum(...) over valid_signals.values(): the first k entries
RECURSIVE SumWeights(_, _)
SumWeights(sigs, k) ==
    IF k = 0 THEN 0
    ELSE sigs[signal_names[k]].weight + SumWeights(sigs, k - 1)

RECURSIVE SumScores(_, _)
SumScores(sigs, k) ==
    IF k = 0 THEN 0
    ELSE sigs[signal_names[k]].score * 100 + SumScores(sigs, k - 1)

RECURSIVE SumProducts(_, _)
SumProducts(sigs, k) ==
    IF k = 0 THEN 0
    ELSE sigs[signal_names[k]].score * sigs[signal_names[k]].weight
           + SumProducts(sigs, k - 1)

\* get_current_risk 78
TotalWeight(sigs) == SumWeights(sigs, Len(signal_names))

\* variant: the scores are summed without their weights
UnweightedSum(sigs) == SumScores(sigs, Len(signal_names))

\* get_current_risk 79-81, the numerator
WeightedSum(sigs) == SumProducts(sigs, Len(signal_names))

\* get_current_risk 79-83: int(sum / total_weight) in binary floating point.
\* The quotient of the doubles can fall just below an exact integer (scores
\* 0, 15, 2, 81, 1, 10 give 19.999999999999996), and int() then yields one
\* less; otherwise it is the integer part of the exact quotient.
RiskLevels(sigs) ==
    LET num == WeightedSum(sigs)
        tw == TotalWeight(sigs)
        q == IntDiv(num, tw)
    IN IF num > 0 /\ num % tw = 0 THEN {q - 1, q} ELSE {q}

\* variant: the regime changes one level late
get_recommendation_late(risk_level) ==
    IF risk_level > 80 THEN "BLACK SWAN ACTIVE"
    ELSE IF risk_level > 60 THEN "HIGH RISK"
    ELSE IF risk_level > 40 THEN "ELEVATED RISK"
    ELSE IF risk_level > 20 THEN "MODERATE RISK"
    ELSE "LOW RISK"

\* _get_recommendation 103-113: the message, named by the regime it opens with
get_recommendation(risk_level) ==
    IF risk_level >= 80 THEN "BLACK SWAN ACTIVE"
    ELSE IF risk_level >= 60 THEN "HIGH RISK"
    ELSE IF risk_level >= 40 THEN "ELEVATED RISK"
    ELSE IF risk_level >= 20 THEN "MODERATE RISK"
    ELSE "LOW RISK"

\* variant: the flag is raised only above the threshold
black_swan_above(risk_level) == risk_level > 80

\* get_current_risk 84
black_swan(risk_level) == risk_level >= 80

\* variant: the multiplier runs from 1x to 4x
premium_multiplier_to_4x(risk_level) == 100 + 3 * risk_level

\* get_current_risk 87 and 99: round(1.0 + (risk_level / 100) * 4.0, 2), in
\* hundredths
premium_multiplier(risk_level) == 100 + 4 * risk_level

\* get_current_risk 83-101
Composite(risk_level) ==
    [computed |-> TRUE,
     risk_level |-> risk_level,
     black_swan_active |-> black_swan(risk_level),
     premium_multiplier |-> premium_multiplier(risk_level),
     recommendation |-> get_recommendation(risk_level)]

\* RiskEngine.get_current_risk 50-101
get_current_risk ==
    /\ \E fv \in VolFeeds, ft \in TvlFeeds, fd \in DepegFeeds :
         LET f == [realized_vol |-> fv, tvl_drawdown |-> ft,
                   stablecoin_depeg |-> fd]
             sigs == ValidSignals(Gather(f))
         IN /\ fetch' = f
            /\ signals' = sigs
            /\ \E r \in RiskLevels(sigs) : risk' = Composite(r)
    /\ UNCHANGED degraded
    /\ UNCHANGED <<loopVars, claimVars, quoteVars, planVars, tailVars>>

\* no aggregation has run yet
InitRisk ==
    /\ fetch = NoFetch
    /\ signals = [n \in SignalNames |-> NoSignal]
    /\ risk = NoRisk
    /\ degraded = NoDegraded

\* no claim has been evaluated yet
NoClaim == [original_price |-> 0, trigger_price |-> 0, trigger_threshold |-> 0,
            coverage_amount_eth |-> 0]
NoClaimOut == [entry |-> "none", raised |-> FALSE, error |-> "none", invalid |-> FALSE,
               approved |-> FALSE, payout_eth |-> NoValue, payout_ratio |-> NoValue]
InitClaimIdle ==
    /\ claim_in = NoClaim
    /\ claim_out = NoClaimOut

\* no premium has been priced yet
NoQuoteRequest == [risk_category |-> "none"]
NoReasoning == [source |-> "none", adjusted_rate_bps |-> 0, base_rate_bps |-> 0,
                multiplier |-> 0, context |-> "none"]
NoQuote == [priced |-> FALSE, raised |-> FALSE, llm |-> "none"]
InitQuoteIdle ==
    /\ quote_in = NoQuoteRequest
    /\ quote_out = NoQuote
    /\ quote_prev = NoQuote

\* no rebalance has been planned yet
NoPlanRequest == [risk_level |-> NoValue]
NoPlan == [planned |-> FALSE]
InitPlanIdle ==
    /\ plan_in = NoPlanRequest
    /\ plan_out = NoPlan

\* nothing has been scored yet
InitTailIdle ==
    /\ tail_in = << >>
    /\ tail_out = << >>

Init == InitLoop /\ InitRisk /\ InitClaimIdle /\ InitQuoteIdle /\ InitPlanIdle /\ InitTailIdle

Spec == Init /\ [][Next]_vars

NextRisk == get_current_risk

SpecRisk == Init /\ [][NextRisk]_vars

\* the score a feed that answered is normalised to
LiveScore(n) ==
    CASE n = "realized_vol" -> get_realized_vol(fetch.realized_vol).score
      [] n = "tvl_drawdown" -> get_tvl_drawdown(fetch.tvl_drawdown).score
      [] n = "stablecoin_depeg" -> get_stablecoin_depeg(fetch.stablecoin_depeg).score
      [] n = "funding_rates" -> 15
      [] n = "liquidation_vol" -> 2
      [] n = "bridge_anomaly" -> 10

FeedSources == {"realized_vol", "tvl_drawdown", "stablecoin_depeg"}

\* C1: whatever subset of the sources fails, a composite is returned; each
\* failed source, and only a failed source, is represented by the neutral
\* signal of score 25 with its configured weight; the scores of the sources
\* that succeeded are unchanged.
FailedSourceGetsNeutralSignal ==
    risk.computed =>
        /\ \A n \in FeedSources :
              fetch[n].failed =>
                 /\ signals[n].score = 25
                 /\ signals[n].kind = "neutral"
                 /\ signals[n].weight = SIGNAL_WEIGHTS[n]
        /\ \A n \in SignalNames :
              (n \notin FeedSources \/ ~fetch[n].failed) =>
                 /\ signals[n].score = LiveScore(n)
                 /\ signals[n].kind = "live"

\* C2: whatever combination of sources succeeds or fails, the returned
\* risk_level is an integer in 0..100.
RiskLevelInRange ==
    risk.computed =>
        /\ \A n \in SignalNames : signals[n].score \in 0..100
        /\ risk.risk_level \in 0..100

\* an aggregation in which one source failed, one was clamped at 100 and one
\* answered
MixedOutcomeWitness ==
    /\ risk.computed
    /\ fetch.realized_vol.failed
    /\ ~fetch.tvl_drawdown.failed /\ fetch.tvl_drawdown.raw = 1500
    /\ ~fetch.stablecoin_depeg.failed
    /\ risk.risk_level > 0

(***************************************************************************)
(* Properties of the decision loop.                                        *)
(***************************************************************************)
InCycle == pc \in {"vol_fetch", "scan_fetch", "scan", "assessing", "paying"}

\* C3: in a cycle whose trust score, read at its start, is below the minimum,
\* no volatility update and no claim payout is submitted and no policy is
\* assessed, whatever earlier cycles did.
TrustGateBlocksCycle ==
    (trust_score # NoValue /\ trust_score < 6000) =>
        /\ ~vol_submitted
        /\ submitted = << >>
        /\ assessed = {}
        /\ last_submit = NoSubmit
        /\ ~InCycle

\* a gated cycle that follows a cycle which paid a claim, with the refresh due
TrustGateWitness ==
    /\ trust_score = 5999
    /\ cycle_count >= 2
    /\ stats.claims_paid >= 1
    /\ pc = "sleep"
    /\ now - last_vol_update >= 300

\* C4: for every policy id, at most one payout submission per cycle, and at
\* most one submission for that id in progress at any time.
OneClaimSubmissionPerPolicy ==
    /\ \A i, j \in 1..Len(submitted) : i # j => submitted[i] # submitted[j]
    /\ \A id \in DOMAIN inflight : inflight[id] <= 1
    /\ \A id \in DOMAIN inflight :
          inflight[id] = 1 => pc = "paying" /\ policy_id = id

\* the submitter has not returned for policy 1, which an earlier cycle already
\* submitted and which failed then
SlowSubmitterWitness ==
    /\ pc = "paying"
    /\ inflight[1] = 1
    /\ cycle_count >= 2
    /\ stats.claims_rejected >= 1
    /\ submitted = <<1>>

\* C5: cycle N+1 begins only once cycle N has finished, by returning or by
\* raising.
CyclesNeverOverlap ==
    [][cycle_count' # cycle_count =>
          /\ cycle_count' = cycle_count + 1
          /\ active_cycles = {}
          /\ cycle_outcome \in {None, "completed", "raised"}
          /\ active_cycles' \subseteq {cycle_count'}]_vars

\* a later cycle is suspended in the assessment after an earlier one raised
SecondCycleWitness ==
    /\ cycle_count >= 2
    /\ pc = "assessing"
    /\ active_cycles = {cycle_count}
    /\ stats.errors >= 1

\* C6: a cycle that raises adds exactly one to errors (and nothing else
\* does), leaves the loop running, and the next cycle begins one poll
\* interval later.
CycleErrorCountedLoopContinues ==
    [][/\ (pc # "sleep" /\ pc' = "sleep" /\ cycle_outcome' = "raised") =>
             /\ stats'.errors = stats.errors + 1
             /\ running' = running
       /\ (stats'.errors # stats.errors) =>
             (pc # "sleep" /\ pc' = "sleep" /\ cycle_outcome' = "raised")
       /\ (pc = "sleep" /\ pc' \notin {"sleep", "cancelled"}) =>
             (pc' = "loop_top" /\ now' = now + 60)
       /\ (pc = "loop_top" /\ running /\ pc' # pc) =>
             cycle_count' = cycle_count + 1]_vars

\* a cycle begins after two cycles raised
ErrorThenNextCycleWitness ==
    /\ stats.errors = 2
    /\ cycle_count = 3
    /\ cycle_outcome = "in_progress"
    /\ running

CycleNeverCancelledPartWay ==
    pc = "cancelled" => cancelled_at = "sleep"

SubmissionFailureCountedCycleContinues ==
    [][(/\ pc \in {"vol_fetch", "paying"}
        /\ pc' \notin {pc, "cancelled"}
        /\ last_submit'.kind # "none"
        /\ ~last_submit'.ok) =>
          /\ stats'.errors = stats.errors + 1
          /\ cycle_outcome' # "raised"]_vars

(***************************************************************************)
(* The policy scan on its own: _scan_policies from the top of its for loop *)
(* (agent_loop.py 135), in the second cycle, against a vault whose         *)
(* policies mapping has grown longer than the scan.  The first cycle       *)
(* refreshed the volatility and paid MaxAssessed - 1 claims.  The event    *)
(* loop resumes the task and every call returns or raises, hence the       *)
(* fairness condition.                                                     *)
(***************************************************************************)
InitScan ==
    /\ running = TRUE
    /\ now = volatility_update_interval + poll_interval_seconds
    /\ last_vol_update = volatility_update_interval
    /\ cycle_count = 2
    /\ stats = [InitStats EXCEPT !.cycles = 2, !.vol_updates = 1,
                                 !.claims_assessed = MaxAssessed - 1,
                                 !.claims_paid = MaxAssessed - 1]
    /\ pc = "scan"
    /\ policy_id = 1
    /\ current_vol \in {v.value : v \in {w \in ChainVolResults : ~w.raised}}
    /\ policy = NoPolicy
    /\ decision = NoDecision
    /\ response = NoResponse
    /\ scan_error = 0
    /\ trust_score = min_trust_score
    /\ last_reading = volatility_update_interval
    /\ policy_count = ScanLimit + 1
    /\ inflight = [i \in 1..(ScanLimit + 1) |-> 0]
    /\ active_cycles = {2}
    /\ vol_submitted = FALSE
    /\ assessed = {}
    /\ submitted = << >>
    /\ last_submit = NoSubmit
    /\ cycle_outcome = "in_progress"
    /\ cancelled_at = None
    /\ InitRisk
    /\ InitClaimIdle /\ InitQuoteIdle /\ InitPlanIdle /\ InitTailIdle

NextScan ==
    \/ ScanPolicy
    \/ ClaimAssessed
    \/ ClaimSubmitted

SpecScan == InitScan /\ [][NextScan]_vars /\ WF_vars(NextScan)

InScan == pc \in {"scan", "assessing", "paying"}

\* C11: the evaluator is invoked and a payout is submitted only for a policy
\* read as ACTIVE whose threshold is met by the current volatility; a policy
\* read as EXPIRED, CLAIMED or CANCELLED, or whose threshold is not met, is
\* passed over without being assessed or paid.
OnlyActiveTriggeredPoliciesAssessed ==
    [][/\ (pc' \in {"assessing", "paying"}) =>
             /\ policy'.holder = "holder"
             /\ policy'.status = 0
             /\ current_vol' >= policy'.triggerThreshold
             /\ policy_id' \in assessed'
       /\ (stats'.claims_assessed # stats.claims_assessed) =>
             (pc = "scan" /\ pc' = "assessing")
       /\ (assessed' # assessed /\ assessed' # {}) =>
             (pc' = "assessing" /\ assessed' = assessed \cup {policy_id'})
       /\ (submitted' # submitted /\ submitted' # << >>) =>
             (pc' = "paying" /\ submitted' = Append(submitted, policy_id'))
       /\ (\/ stats'.claims_paid # stats.claims_paid
           \/ stats'.claims_rejected # stats.claims_rejected) => pc = "paying"
       /\ (pc = "scan" /\ pc' # "assessing") =>
             (assessed' = assessed /\ submitted' = submitted)]_vars

\* policy 2, whose threshold equals the chain index, is being paid in a scan
\* that passed over policy 1
BoundaryPolicyPaidWitness ==
    /\ pc = "paying"
    /\ policy_id = 2
    /\ assessed = {2}
    /\ submitted = <<2>>
    /\ policy.status = 0
    /\ current_vol = 7500
    /\ policy.triggerThreshold = 7500

\* C12: the scan probes the ids 1, 2, 3, ... in order, never an id above 100;
\* it ends at the first empty slot or after id 100, and it always ends; no id
\* above the point where it ended is assessed or paid.
ScanBoundedStopsAtEmptySlot ==
    /\ [][/\ InScan' => policy_id' \in 1..100
          /\ (pc = "scan_fetch" /\ pc' = "scan") => policy_id' = 1
          /\ (InScan /\ policy_id' # policy_id) =>
                \/ pc' = "scan" /\ policy_id' = policy_id + 1
                \/ pc' = "sleep" /\ policy_id' = 0
          /\ (InScan /\ pc' = "sleep") =>
                /\ cycle_outcome' = "completed"
                /\ \/ pc = "scan" /\ policy'.holder = "zero"
                   \/ policy_id = 100 /\ policy'.holder # "zero"
          /\ InScan' =>
                /\ policy'.holder # "zero"
                /\ \A i \in assessed' : i <= policy_id'
                /\ \A k \in 1..Len(submitted') : submitted'[k] <= policy_id'
          /\ (pc = "sleep") =>
                /\ assessed' \in {assessed, {}}
                /\ submitted' \in {submitted, << >>}
                /\ stats' = stats]_vars
    /\ (pc = "scan" ~> pc = "sleep")

\* the hundredth slot holds a policy that is being paid
HundredthSlotWitness ==
    /\ pc = "paying"
    /\ policy_id = 100
    /\ assessed = {100}
    /\ submitted = <<100>>

(***************************************************************************)
(* Properties of the composite.                                            *)
(***************************************************************************)

\* C13: the returned risk_level equals the weighted average of the scores
\* rounded to the nearest integer (ties to the even one, as round() does),
\* over exactly the configured signal names.
RiskLevelIsRoundedAverage ==
    risk.computed =>
        /\ DOMAIN signals = SignalNames
        /\ \A n \in SignalNames :
              signals[n].name = n /\ signals[n].weight = SIGNAL_WEIGHTS[n]
        /\ LET num == SumProducts(signals, 6)
               tw == SumWeights(signals, 6)
               q == num \div tw
               twice == 2 * (num % tw)
               nearest == IF twice < tw THEN q
                          ELSE IF twice > tw THEN q + 1
                          ELSE IF q % 2 = 0 THEN q ELSE q + 1
           IN risk.risk_level = nearest

(***************************************************************************)
(* The weighted average on its own: get_current_risk from line 77 on, as a *)
(* function of the six signals.  The scores are drawn from the values at   *)
(* and next to the thresholds.                                             *)
(***************************************************************************)
Scores == {0, 20, 40, 60, 79, 80, 100}

SignalsOf(sc) == [n \in SignalNames |-> Signal(n, sc[n], "live")]

InitComposite ==
    /\ InitLoop
    /\ fetch = NoFetch
    /\ signals \in {SignalsOf(sc) : sc \in [SignalNames -> Scores]}
    /\ risk = NoRisk
    /\ degraded = NoDegraded
    /\ InitClaimIdle /\ InitQuoteIdle /\ InitPlanIdle /\ InitTailIdle

\* get_current_risk 77-101
weighted_average ==
    /\ ~risk.computed
    /\ \E r \in RiskLevels(signals) : risk' = Composite(r)
    /\ UNCHANGED <<fetch, signals, degraded>>
    /\ UNCHANGED <<loopVars, claimVars, quoteVars, planVars, tailVars>>

NextComposite == weighted_average

SpecComposite == InitComposite /\ [][NextComposite]_vars

\* C14: in every composite, black_swan_active is true iff risk_level >= 80.
BlackSwanIffAtLeast80 ==
    risk.computed =>
        /\ risk.black_swan_active <=> risk.risk_level >= 80
        /\ risk.risk_level = 79 => ~risk.black_swan_active
        /\ risk.risk_level = 80 => risk.black_swan_active

\* a composite of exactly 80 out of unequal scores
RiskLevel80Witness ==
    /\ risk.computed
    /\ risk.risk_level = 80
    /\ risk.black_swan_active
    /\ signals["realized_vol"].score = 100
    /\ signals["tvl_drawdown"].score = 60

\* C15: the premium multiplier is 1.0 + (risk_level / 100) * 4.0: 1.0 at 0,
\* 5.0 at 100, within [1.0, 5.0], and never lower for a higher risk_level.
PremiumMultiplierLinear ==
    risk.computed =>
        /\ risk.premium_multiplier = 100 + 4 * risk.risk_level
        /\ risk.premium_multiplier \in 100..500
        /\ risk.risk_level = 0 => risk.premium_multiplier = 100
        /\ risk.risk_level = 100 => risk.premium_multiplier = 500
        /\ \A r \in 0..100 :
              /\ r <= risk.risk_level =>
                    Composite(r).premium_multiplier <= risk.premium_multiplier
              /\ r >= risk.risk_level =>
                    Composite(r).premium_multiplier >= risk.premium_multiplier

\* the composite of six scores of 100
RiskLevel100Witness ==
    /\ risk.computed
    /\ risk.risk_level = 100
    /\ risk.premium_multiplier = 500

\* C16: the recommendation follows from risk_level alone: below 20 LOW, 20..39
\* MODERATE, 40..59 ELEVATED, 60..79 HIGH, 80 and above BLACK SWAN; it is
\* BLACK SWAN exactly when black_swan_active is true.
RecommendationThresholds ==
    risk.computed =>
        /\ risk.recommendation =
              (CASE risk.risk_level < 20 -> "LOW RISK"
                 [] risk.risk_level \in 20..39 -> "MODERATE RISK"
                 [] risk.risk_level \in 40..59 -> "ELEVATED RISK"
                 [] risk.risk_level \in 60..79 -> "HIGH RISK"
                 [] risk.risk_level >= 80 -> "BLACK SWAN ACTIVE")
        /\ (risk.recommendation = "BLACK SWAN ACTIVE") <=> risk.black_swan_active

\* a composite of exactly 60, the lowest HIGH
RiskLevel60Witness ==
    /\ risk.computed
    /\ risk.risk_level = 60
    /\ risk.recommendation = "HIGH RISK"
    /\ signals["realized_vol"].score # signals["tvl_drawdown"].score

(***************************************************************************)
(* One source failing: the aggregation of the same six results with the    *)
(* result of one source replaced by what its failure leaves behind.        *)
(***************************************************************************)
ScoresFallback == {0, 25, 100}

\* asyncio.gather(..., return_exceptions=True) 52-60: the coroutine raised
Raised(n) == [name |-> n, score |-> 0, weight |-> 0, kind |-> "none",
              exception |-> TRUE]

\* what the failure of source n leaves in the results of gather: the
\* exception, or the estimate the source returns from its own handler
FailureResults(n) ==
    {Raised(n)} \cup
      (CASE n = "realized_vol" -> {get_realized_vol(FeedFailed)}
         [] n = "tvl_drawdown" -> {get_tvl_drawdown(FeedFailed)}
         [] n = "stablecoin_depeg" -> {get_stablecoin_depeg(FeedFailed)}
         [] OTHER -> {})

InitFallback ==
    /\ InitLoop
    /\ fetch = NoFetch
    /\ signals \in {SignalsOf(sc) : sc \in [SignalNames -> ScoresFallback]}
    /\ risk = NoRisk
    /\ degraded = NoDegraded
    /\ InitClaimIdle /\ InitQuoteIdle /\ InitPlanIdle /\ InitTailIdle

\* get_current_risk 52-83 for the same results, one of them a failure
source_fails ==
    /\ risk.computed
    /\ degraded = NoDegraded
    /\ \E n \in SignalNames : \E f \in FailureResults(n) :
         LET results == [k \in 1..Len(signal_names) |->
                            IF signal_names[k] = n THEN f
                            ELSE signals[signal_names[k]]]
         IN \E r \in RiskLevels(ValidSignals(results)) :
               degraded' = [source |-> n, risk_level |-> r]
    /\ UNCHANGED <<fetch, signals, risk>>
    /\ UNCHANGED <<loopVars, claimVars, quoteVars, planVars, tailVars>>

NextFallback ==
    \/ weighted_average
    \/ source_fails

SpecFallback == InitFallback /\ [][NextFallback]_vars

\* C17: with one source failing, the risk_level differs from the risk_level
\* of the run in which every source succeeded by at most
\* weight_i * 100 / sum(weights).
FallbackBound ==
    degraded.source # "none" =>
        LET d == degraded.risk_level - risk.risk_level
            dist == IF d >= 0 THEN d ELSE -d
        IN dist * 100 <= SIGNAL_WEIGHTS[degraded.source] * 100

\* the failing source had the top score and the composite fell by 15
TopScoreSourceFailedWitness ==
    /\ degraded.source = "realized_vol"
    /\ signals["realized_vol"].score = 100
    /\ risk.risk_level - degraded.risk_level = 15

(***************************************************************************)
(* Claim evaluation, agent/src/claude_agent.py.                            *)
(* Prices and the coverage are whole numbers, the threshold is in          *)
(* hundredths (0.20 is 20).  A ratio is kept as a numerator over the       *)
(* denominator |original_price| * 100, so that the quotients of the code   *)
(* are exact; payout_eth is in millionths of an ETH (round(.., 6)) and the *)
(* reported payout_ratio in ten-thousandths (round(.., 4)).                *)
(***************************************************************************)
ClaimInputs ==
    [original_price : {-100, 0, 3, 100},
     trigger_price : {2, 50, 78, 80, 85, 120},
     trigger_threshold : {20, 50},
     coverage_amount_eth : {1, 3}]

Abs(x) == IF x >= 0 THEN x ELSE -x

\* round(): n / d to the nearest integer, a tie to the even one (n >= 0, d > 0)
RoundDiv(n, d) ==
    LET q == n \div d
        twice == 2 * (n % d)
    IN IF twice < d THEN q
       ELSE IF twice > d THEN q + 1
       ELSE IF q % 2 = 0 THEN q ELSE q + 1

\* the denominator of the ratios of one evaluation
RatioDenominator(c) == Abs(c.original_price) * 100

\* claude_agent.py 190 and 334: (original_price - trigger_price) /
\* original_price, as a numerator over RatioDenominator
actual_drop(c) ==
    IF c.original_price > 0
    THEN (c.original_price - c.trigger_price) * 100
    ELSE (c.trigger_price - c.original_price) * 100

\* trigger_threshold as a numerator over RatioDenominator
threshold_of(c) == c.trigger_threshold * Abs(c.original_price)

\* variant: the drop has to exceed the threshold
triggered_above(c) == actual_drop(c) > threshold_of(c)

\* claude_agent.py 191 and 335
triggered(c) == actual_drop(c) >= threshold_of(c)

\* claude_agent.py 204-205 and 338-339: min(1.0, 0.5 + excess * 2.0), as a
\* numerator over RatioDenominator
payout_ratio(c) ==
    Min(RatioDenominator(c),
        RatioDenominator(c) \div 2 + (actual_drop(c) - threshold_of(c)) * 2)

\* claude_agent.py 206 and 340: round(coverage_amount_eth * payout_ratio, 6)
payout_eth(c) ==
    RoundDiv(c.coverage_amount_eth * payout_ratio(c) * 10000, Abs(c.original_price))

\* ToolExecutor._tool_evaluate_claim 178-216
tool_evaluate_claim ==
    /\ claim_out.entry = "none"
    /\ claim_in # NoClaim
    /\ claim_out' =
          IF claim_in.original_price <= 0
          THEN [entry |-> "tool", raised |-> FALSE, error |-> "none", invalid |-> TRUE,
                approved |-> FALSE, payout_eth |-> NoValue, payout_ratio |-> NoValue]
          ELSE IF ~triggered(claim_in)
          THEN [entry |-> "tool", raised |-> FALSE, error |-> "none", invalid |-> FALSE,
                approved |-> FALSE, payout_eth |-> 0, payout_ratio |-> NoValue]
          ELSE [entry |-> "tool", raised |-> FALSE, error |-> "none", invalid |-> FALSE,
                approved |-> TRUE, payout_eth |-> payout_eth(claim_in),
                payout_ratio |-> RoundDiv(payout_ratio(claim_in) * 100,
                                          Abs(claim_in.original_price))]
    /\ UNCHANGED claim_in
    /\ UNCHANGED <<loopVars, riskVars, quoteVars, planVars, tailVars>>

\* ClaudeAgent.evaluate_claim 305-366: the agentic loop answers or raises,
\* then the decision is computed; no payout_ratio is returned
evaluate_claim ==
    /\ claim_out.entry = "none"
    /\ claim_in # NoClaim
    /\ \E llm \in {"answered", "raised"} :
         claim_out' =
            IF llm = "raised"
            THEN [entry |-> "agent", raised |-> TRUE, error |-> "APIError",
                  invalid |-> FALSE, approved |-> FALSE, payout_eth |-> NoValue,
                  payout_ratio |-> NoValue]
            ELSE IF claim_in.original_price = 0
            THEN [entry |-> "agent", raised |-> TRUE, error |-> "ZeroDivisionError",
                  invalid |-> FALSE, approved |-> FALSE, payout_eth |-> NoValue,
                  payout_ratio |-> NoValue]
            ELSE IF ~triggered(claim_in)
            THEN [entry |-> "agent", raised |-> FALSE, error |-> "none", invalid |-> FALSE,
                  approved |-> FALSE, payout_eth |-> 0, payout_ratio |-> NoValue]
            ELSE [entry |-> "agent", raised |-> FALSE, error |-> "none", invalid |-> FALSE,
                  approved |-> TRUE, payout_eth |-> payout_eth(claim_in),
                  payout_ratio |-> NoValue]
    /\ UNCHANGED claim_in
    /\ UNCHANGED <<loopVars, riskVars, quoteVars, planVars, tailVars>>

InitClaim ==
    /\ InitLoop
    /\ InitRisk
    /\ claim_in \in ClaimInputs
    /\ claim_out = NoClaimOut
    /\ InitQuoteIdle /\ InitPlanIdle /\ InitTailIdle

NextClaim ==
    \/ tool_evaluate_claim
    \/ evaluate_claim

SpecClaim == InitClaim /\ [][NextClaim]_vars

\* C18: with original_price > 0, an evaluation that returns approves the claim
\* iff (original_price - trigger_price) / original_price >= trigger_threshold;
\* an approved claim pays coverage * min(1.0, 0.5 + 2.0 * (drop - threshold)),
\* to the precision returned, and a claim that is not approved pays 0 and
\* reports no ratio.  100/78/0.20 is approved with ratio 0.54, 100/85/0.20 is
\* not approved.
ClaimTriggerAndPayout ==
    (claim_out.entry # "none" /\ ~claim_out.raised /\ claim_in.original_price > 0) =>
        LET o == claim_in.original_price
            t == claim_in.trigger_price
            th == claim_in.trigger_threshold
            cov == claim_in.coverage_amount_eth
            \* all ratios over o * 100
            excess == (o - t) * 100 - th * o
            uncapped == o * 50 + 2 * excess
            ratio == IF uncapped > o * 100 THEN o * 100 ELSE uncapped
        IN /\ ~claim_out.invalid
           /\ claim_out.approved <=> (o - t) * 100 >= th * o
           /\ claim_out.approved =>
                 /\ 2 * Abs(claim_out.payout_eth * o - cov * ratio * 10000) <= o
                 /\ claim_out.entry = "tool" =>
                       2 * Abs(claim_out.payout_ratio * o - ratio * 100) <= o
           /\ ~claim_out.approved =>
                 /\ claim_out.payout_eth = 0
                 /\ claim_out.payout_ratio \in {0, NoValue}
           /\ (o = 100 /\ t = 78 /\ th = 20) =>
                 /\ claim_out.approved
                 /\ claim_out.payout_eth = cov * 540000
                 /\ claim_out.entry = "tool" => claim_out.payout_ratio = 5400
           /\ (o = 100 /\ t = 85 /\ th = 20) => ~claim_out.approved

\* the tool approved a drop equal to the threshold, paying half the coverage
DropAtThresholdWitness ==
    /\ claim_out.entry = "tool"
    /\ claim_in.original_price = 100
    /\ claim_in.trigger_price = 80
    /\ claim_in.trigger_threshold = 20
    /\ claim_in.coverage_amount_eth = 3
    /\ claim_out.approved
    /\ claim_out.payout_eth = 1500000
    /\ claim_out.payout_ratio = 5000

\* C19: with original_price <= 0, every entry point returns a failure marked
\* as invalid input: it does not raise, does not approve and pays nothing
\* (the model API answering).
NonPositivePriceRejected ==
    (/\ claim_out.entry # "none"
     /\ claim_out.error # "APIError"
     /\ claim_in.original_price <= 0) =>
        /\ ~claim_out.raised
        /\ claim_out.invalid
        /\ ~claim_out.approved
        /\ claim_out.payout_eth <= 0

(***************************************************************************)
(* Premium pricing, agent/llm_pricer.py.                                   *)
(* Rates are in basis points, the multiplier in hundredths (1.16 is 116),  *)
(* the coverage in whole units and premium_amount in hundredths of a unit  *)
(* (round(.., 2)).                                                         *)
(***************************************************************************)
\* BASE_ANNUAL_RATES_BPS 19-27
RateCategories == {"defi-protocol", "stablecoin-depeg", "bridge", "liquidation",
                   "oracle-manipulation", "governance-attack", "general"}
BASE_ANNUAL_RATES_BPS ==
    [c \in RateCategories |->
        CASE c = "defi-protocol" -> 200
          [] c = "stablecoin-depeg" -> 50
          [] c = "bridge" -> 300
          [] c = "liquidation" -> 150
          [] c = "oracle-manipulation" -> 250
          [] c = "governance-attack" -> 100
          [] c = "general" -> 175]

QuoteRequests ==
    [coverage_amount : {10000, 1000000},
     risk_category : {"bridge", "defi-protocol", "general", "unlisted"},
     duration_days : {30, 89, 90, 179, 180, 200},
     premium_multiplier : {100, 116, 140}]

\* price_premium 65: BASE_ANNUAL_RATES_BPS.get(risk_category, ...["general"])
base_rate_bps(category) ==
    IF category \in RateCategories THEN BASE_ANNUAL_RATES_BPS[category]
    ELSE BASE_ANNUAL_RATES_BPS["general"]

\* the products base_rate_bps * risk_multiplier whose double falls just below
\* the exact integer (200 * 1.16 is 231.99999999999997, 175 * 1.4 is
\* 244.99999999999997)
ProductBelowInteger == {<<200, 116>>, <<175, 140>>}

\* price_premium 70: int(base_rate_bps * risk_multiplier)
risk_adjusted_rate(base, multiplier) ==
    IF <<base, multiplier>> \in ProductBelowInteger
    THEN IntDiv(base * multiplier, 100) - 1
    ELSE IntDiv(base * multiplier, 100)

\* price_premium 73-76: the duration discount, in hundredths
duration_discount(days) ==
    IF days >= 180 THEN 85 ELSE IF days >= 90 THEN 92 ELSE 100

\* price_premium 70-76: adjusted_rate_bps; int() after the discount, none
\* without a discount
adjusted_rate_bps(q) ==
    LET rate == risk_adjusted_rate(base_rate_bps(q.risk_category), q.premium_multiplier)
    IN IF q.duration_days >= 90
       THEN IntDiv(rate * duration_discount(q.duration_days), 100)
       ELSE rate

\* price_premium 66, 78 and 101: round(coverage_amount * adjusted_rate_bps /
\* 10000 * duration_factor, 2)
premium_amount(q) ==
    RoundDiv((q.coverage_amount \div 10000) * adjusted_rate_bps(q) * q.duration_days * 100,
             365)

\* _identify_risk_factors 178-186: the factors of the category
category_factors(category) ==
    CASE category = "defi-protocol" ->
           <<"Smart contract exploit risk", "Flash loan attack vector">>
      [] category = "stablecoin-depeg" ->
           <<"Collateral backing uncertainty", "Regulatory intervention risk">>
      [] category = "bridge" ->
           <<"Cross-chain message validation", "Validator key compromise">>
      [] category = "liquidation" ->
           <<"Leverage cascade risk", "Oracle price manipulation">>
      [] category = "oracle-manipulation" ->
           <<"Price feed manipulation", "Sandwich attack exposure">>
      [] category = "governance-attack" ->
           <<"Flash loan governance", "Voter apathy risk">>
      [] OTHER -> <<"General DeFi protocol risk">>

\* _identify_risk_factors 190-197: signals.get(name, {}).get("score", 0); an
\* absent signal (NoValue) counts as score 0
signal_score(sig, name) == IF sig[name] = NoValue THEN 0 ELSE sig[name]

\* variant: a score equal to the threshold already adds the factor
signal_factor_at_threshold(sig, name, threshold, factor) ==
    IF signal_score(sig, name) >= threshold THEN <<factor>> ELSE << >>

\* _identify_risk_factors 190-197: one conditional entry
signal_factor(sig, name, threshold, factor) ==
    IF signal_score(sig, name) > threshold THEN <<factor>> ELSE << >>

\* factors[:5]
Cap5(factors) == SubSeq(factors, 1, IF Len(factors) > 5 THEN 5 ELSE Len(factors))

\* LLMPricer._identify_risk_factors 174-199
identify_risk_factors(category, sig) ==
    Cap5(category_factors(category)
           \o signal_factor(sig, "realized_vol", 50, "Elevated realized volatility")
           \o signal_factor(sig, "liquidation_vol", 40, "Active liquidation cascades")
           \o signal_factor(sig, "stablecoin_depeg", 20, "Stablecoin peg stress detected")
           \o signal_factor(sig, "bridge_anomaly", 30, "Bridge outflow anomaly"))

\* what the chat completion does when it is called: it answers, or the call
\* (or reading its answer) raises
LLMOutcomes == {"answered", "raised"}

\* _fallback_reasoning 154-159: the market context the template names
fallback_context(risk_level) ==
    IF risk_level >= 60 THEN "elevated market stress"
    ELSE IF risk_level >= 30 THEN "moderate market conditions"
    ELSE "calm market conditions"

\* LLMPricer._fallback_reasoning 149-166: the numbers the template carries
fallback_reasoning(q) ==
    [source |-> "template",
     adjusted_rate_bps |-> adjusted_rate_bps(q),
     base_rate_bps |-> base_rate_bps(q.risk_category),
     multiplier |-> q.premium_multiplier,
     context |-> fallback_context(q.risk_level)]

\* variant: the failure of the chat completion is not caught
get_llm_reasoning_unguarded(q, outcome) ==
    IF ~q.api_key THEN fallback_reasoning(q)
    ELSE IF outcome = "raised" THEN [NoReasoning EXCEPT !.source = "raised"]
    ELSE [NoReasoning EXCEPT !.source = "llm"]

\* LLMPricer._get_llm_reasoning 109-147: without an API key, or when the call
\* raises, the template; else the text of the model
get_llm_reasoning(q, outcome) ==
    IF ~q.api_key \/ outcome = "raised"
    THEN fallback_reasoning(q)
    ELSE [NoReasoning EXCEPT !.source = "llm"]

\* LLMPricer.price_premium 52-107; an exception of _get_llm_reasoning (81)
\* would leave price_premium
price_premium ==
    /\ ~quote_prev.priced
    /\ ~quote_out.raised
    /\ quote_in # NoQuoteRequest
    /\ \E outcome \in LLMOutcomes :
         LET called == IF quote_in.api_key THEN outcome ELSE "no_api_key"
             reasoning == get_llm_reasoning(quote_in, outcome)
         IN /\ quote_in.api_key \/ outcome = "answered"
            /\ quote_out' =
                 IF reasoning.source = "raised"
                 THEN [NoQuote EXCEPT !.raised = TRUE, !.llm = called]
                 ELSE [priced |-> TRUE,
                       raised |-> FALSE,
                       premium_rate_bps |-> adjusted_rate_bps(quote_in),
                       premium_amount |-> premium_amount(quote_in),
                       risk_factors |-> identify_risk_factors(quote_in.risk_category,
                                                              quote_in.signals),
                       llm |-> called,
                       reasoning |-> reasoning]
    /\ quote_prev' = quote_out
    /\ UNCHANGED quote_in
    /\ UNCHANGED <<loopVars, riskVars, claimVars, planVars, tailVars>>

\* the scores of the signals a request carries: absent, at the threshold of
\* its factor, or one above
FactorScores ==
    [realized_vol : {NoValue, 50, 51}, liquidation_vol : {NoValue, 40, 41},
     stablecoin_depeg : {NoValue, 20, 21}, bridge_anomaly : {NoValue, 30, 31}]

\* RiskEngine.get_current_risk 87 and 99: premium_multiplier is 1 + 4 * risk_level /
\* 100, so the risk level a multiplier (in hundredths) goes with
risk_level_of(multiplier) == (multiplier - 100) \div 4

InitQuote ==
    /\ InitLoop
    /\ InitRisk
    /\ InitClaimIdle /\ InitPlanIdle /\ InitTailIdle
    /\ \E q \in QuoteRequests, sig \in FactorScores, key \in BOOLEAN :
         quote_in = [coverage_amount |-> q.coverage_amount,
                     risk_category |-> q.risk_category,
                     duration_days |-> q.duration_days,
                     premium_multiplier |-> q.premium_multiplier,
                     risk_level |-> risk_level_of(q.premium_multiplier),
                     signals |-> sig,
                     api_key |-> key]
    /\ quote_out = NoQuote
    /\ quote_prev = NoQuote

NextQuote == price_premium

SpecQuote == InitQuote /\ [][NextQuote]_vars

\* C20: premium_rate_bps is round(baseRateBps * premiumMultiplier) times the
\* duration discount (0.85 from 180 days, 0.92 from 90 days, else 1.0), to the
\* nearest basis point, with the 'general' rate for an unknown category;
\* premium_amount is coverage_amount * rate / 10000 * (duration_days / 365),
\* to the cent.  Bridge, multiplier 1.0, 30 days, 1,000,000 gives rate 300 and
\* amount 2,465.75.
QuoteFollowsPricingFormula ==
    quote_out.priced =>
        LET c == quote_in.risk_category
            base == CASE c = "bridge" -> 300
                      [] c = "defi-protocol" -> 200
                      [] OTHER -> 175
            product == base * quote_in.premium_multiplier
            rounded == IF 2 * (product % 100) >= 100
                       THEN product \div 100 + 1 ELSE product \div 100
            discount == IF quote_in.duration_days >= 180 THEN 85
                        ELSE IF quote_in.duration_days >= 90 THEN 92 ELSE 100
            units == quote_in.coverage_amount \div 10000
        IN /\ 2 * Abs(quote_out.premium_rate_bps * 100 - rounded * discount) <= 100
           /\ 2 * Abs(quote_out.premium_amount * 365
                        - units * quote_out.premium_rate_bps
                            * quote_in.duration_days * 100) <= 365
           /\ (/\ c = "bridge"
               /\ quote_in.premium_multiplier = 100
               /\ quote_in.duration_days = 30
               /\ quote_in.coverage_amount = 1000000) =>
                 (quote_out.premium_rate_bps = 300 /\ quote_out.premium_amount = 246575)

\* C21: risk_factors is the fixed list of the category (one general entry for
\* a category without a list), followed by the entries for volatility (score
\* > 50), liquidation volume (> 40), depeg (> 20) and bridge anomaly (> 30) in
\* that order, cut to at most 5 entries; a signal at its threshold, or absent,
\* adds nothing.
RiskFactorsOrderedAndCapped ==
    quote_out.priced =>
        LET c == quote_in.risk_category
            sig == quote_in.signals
            fixed == CASE c = "bridge" -> <<"Cross-chain message validation",
                                            "Validator key compromise">>
                       [] c = "defi-protocol" -> <<"Smart contract exploit risk",
                                                   "Flash loan attack vector">>
                       [] OTHER -> <<"General DeFi protocol risk">>
            above(name, t) == sig[name] # NoValue /\ sig[name] > t
            entries ==
                fixed
                \o (IF above("realized_vol", 50)
                    THEN <<"Elevated realized volatility">> ELSE << >>)
                \o (IF above("liquidation_vol", 40)
                    THEN <<"Active liquidation cascades">> ELSE << >>)
                \o (IF above("stablecoin_depeg", 20)
                    THEN <<"Stablecoin peg stress detected">> ELSE << >>)
                \o (IF above("bridge_anomaly", 30)
                    THEN <<"Bridge outflow anomaly">> ELSE << >>)
            factors == quote_out.risk_factors
        IN /\ Len(factors) <= 5
           /\ Len(factors) = (IF Len(entries) > 5 THEN 5 ELSE Len(entries))
           /\ \A i \in 1..Len(factors) : factors[i] = entries[i]

\* a bridge quote with all four signals above their thresholds: six entries
\* apply and the bridge anomaly, the last of them, is cut
SixFactorsCutToFiveWitness ==
    /\ quote_out.priced
    /\ quote_in.signals = [realized_vol |-> 51, liquidation_vol |-> 41,
                           stablecoin_depeg |-> 21, bridge_anomaly |-> 31]
    /\ quote_out.risk_factors = <<"Cross-chain message validation",
                                  "Validator key compromise",
                                  "Elevated realized volatility",
                                  "Active liquidation cascades",
                                  "Stablecoin peg stress detected">>

\* C22: when the reasoning collaborator is not configured or raises,
\* price_premium still returns a quote; its reasoning is the template carrying
\* the rate, base rate and multiplier of this quote, and premium_amount,
\* premium_rate_bps and risk_factors equal those of the quote returned for the
\* same request when reasoning succeeds.
QuoteSurvivesReasoningFailure ==
    /\ quote_out.llm \in {"no_api_key", "raised"} =>
          /\ quote_out.priced
          /\ ~quote_out.raised
          /\ quote_out.reasoning.source = "template"
          /\ quote_out.reasoning.adjusted_rate_bps = quote_out.premium_rate_bps
          /\ quote_out.reasoning.multiplier = quote_in.premium_multiplier
          /\ quote_out.reasoning.base_rate_bps =
                (CASE quote_in.risk_category = "bridge" -> 300
                   [] quote_in.risk_category = "defi-protocol" -> 200
                   [] OTHER -> 175)
    /\ quote_out.llm = "answered" =>
          quote_out.priced /\ quote_out.reasoning.source = "llm"
    /\ (quote_prev.llm # "none" /\ quote_out.llm # "none") =>
          /\ quote_prev.priced /\ quote_out.priced
          /\ quote_out.premium_amount = quote_prev.premium_amount
          /\ quote_out.premium_rate_bps = quote_prev.premium_rate_bps
          /\ quote_out.risk_factors = quote_prev.risk_factors

\* the same request priced twice: the model answered the first time and its
\* call raised the second time
ReasoningFailedAfterSuccessWitness ==
    /\ quote_prev.priced
    /\ quote_prev.llm = "answered"
    /\ quote_prev.reasoning.source = "llm"
    /\ quote_out.llm = "raised"
    /\ quote_out.priced
    /\ quote_out.reasoning.source = "template"
    /\ quote_out.premium_rate_bps = 244
    /\ Len(quote_out.risk_factors) = 3

(***************************************************************************)
(* Defensive rebalancing, agent/rebalancer.py.                             *)
(* Allocation shares are in hundredths (0.70 is 70).                       *)
(***************************************************************************)
\* Rebalancer.RISK_THRESHOLDS 23-26
RISK_THRESHOLDS == [defensive |-> 60, emergency |-> 80]

\* trigger_defensive_rebalance 37, 40 and 43: the three allocation tables
EmergencyAllocation == [USDC |-> 70, USDT |-> 20, DAI |-> 10, ETH |-> 0]
DefensiveAllocation == [USDC |-> 40, USDT |-> 20, DAI |-> 10, ETH |-> 30]

\* variant: the cautious table leaves a twentieth unallocated
CautiousAllocationShort == [USDC |-> 20, USDT |-> 10, DAI |-> 5, ETH |-> 60]

CautiousAllocation == [USDC |-> 20, USDT |-> 10, DAI |-> 5, ETH |-> 65]

\* variant: the tiers start strictly above their thresholds
allocation_above(risk_level) ==
    IF risk_level > RISK_THRESHOLDS.emergency
    THEN [allocation |-> EmergencyAllocation,
          action |-> "EMERGENCY: Full flight to stablecoins"]
    ELSE IF risk_level > RISK_THRESHOLDS.defensive
    THEN [allocation |-> DefensiveAllocation,
          action |-> "DEFENSIVE: Reducing volatile exposure 70%"]
    ELSE [allocation |-> CautiousAllocation,
          action |-> "CAUTIOUS: Slight defensive tilt"]

\* trigger_defensive_rebalance 36-44
allocation(risk_level) ==
    IF risk_level >= RISK_THRESHOLDS.emergency
    THEN [allocation |-> EmergencyAllocation,
          action |-> "EMERGENCY: Full flight to stablecoins"]
    ELSE IF risk_level >= RISK_THRESHOLDS.defensive
    THEN [allocation |-> DefensiveAllocation,
          action |-> "DEFENSIVE: Reducing volatile exposure 70%"]
    ELSE [allocation |-> CautiousAllocation,
          action |-> "CAUTIOUS: Slight defensive tilt"]

\* sorted(..., key=score, reverse=True) 52-54 is stable: of two entries with
\* the same score the one that comes first in the map stays first
SortsBefore(sigs, i, j) ==
    \/ sigs[i].score > sigs[j].score
    \/ sigs[i].score = sigs[j].score /\ i < j

\* the entries of the map by descending score
sorted_by_score(sigs) ==
    [k \in 1..Len(sigs) |->
        sigs[CHOOSE i \in 1..Len(sigs) :
                Cardinality({j \in 1..Len(sigs) : SortsBefore(sigs, j, i)}) = k - 1]]

\* trigger_defensive_rebalance 50-55: the first three of the sorted entries
top_risk_signals(sigs) ==
    SubSeq(sorted_by_score(sigs), 1, IF Len(sigs) > 3 THEN 3 ELSE Len(sigs))

\* Rebalancer.trigger_defensive_rebalance 28-64; with a private key
\* _execute_swaps 66-72 is awaited, which only logs
trigger_defensive_rebalance ==
    /\ ~plan_out.planned
    /\ plan_in # NoPlanRequest
    /\ plan_out' = [planned |-> TRUE,
                    triggered_at_risk_level |-> plan_in.risk_level,
                    action |-> allocation(plan_in.risk_level).action,
                    target_allocation |-> allocation(plan_in.risk_level).allocation,
                    top_risk_signals |-> top_risk_signals(plan_in.signals),
                    status |-> IF plan_in.private_key THEN "executing" ELSE "demo",
                    swaps |-> plan_in.private_key]
    /\ UNCHANGED plan_in
    /\ UNCHANGED <<loopVars, riskVars, claimVars, quoteVars, tailVars>>

\* RiskEngine.get_current_risk 63-75 and 94-98: the signal map is filled in
\* the order of SIGNAL_WEIGHTS
SignalOrder == <<"realized_vol", "funding_rates", "liquidation_vol", "tvl_drawdown",
                 "stablecoin_depeg", "bridge_anomaly">>

\* the scores of a plan request; 25 is the score of a source that failed
PlanScores == {25, 60, 80}
PlanRiskLevels == {0, 59, 60, 79, 80, 100}

\* a signal map of the first n sources with the scores f
SignalMap(n, f) == [i \in 1..n |-> [name |-> SignalOrder[i], score |-> f[i]]]

\* the signal maps of a plan request: all six sources, or only the first two
SignalMaps ==
    {SignalMap(6, f) : f \in [1..6 -> PlanScores]}
      \cup {SignalMap(2, f) : f \in [1..2 -> PlanScores]}

InitPlan ==
    /\ InitLoop
    /\ InitRisk
    /\ InitClaimIdle /\ InitQuoteIdle /\ InitTailIdle
    /\ plan_in \in [risk_level : PlanRiskLevels, signals : SignalMaps,
                     private_key : BOOLEAN]
    /\ plan_out = NoPlan

NextPlan == trigger_defensive_rebalance

SpecPlan == InitPlan /\ [][NextPlan]_vars

\* C23: the allocation of the plan depends on risk_level alone: >= 80 the
\* emergency allocation, 60..79 the defensive one, below 60 the cautious
\* default; triggered_at_risk_level is the input risk_level.
AllocationTierByRiskLevel ==
    plan_out.planned =>
        /\ plan_out.triggered_at_risk_level = plan_in.risk_level
        /\ plan_in.risk_level >= 80 =>
              plan_out.target_allocation = [USDC |-> 70, USDT |-> 20, DAI |-> 10, ETH |-> 0]
        /\ (plan_in.risk_level >= 60 /\ plan_in.risk_level < 80) =>
              plan_out.target_allocation = [USDC |-> 40, USDT |-> 20, DAI |-> 10, ETH |-> 30]
        /\ plan_in.risk_level < 60 =>
              plan_out.target_allocation = [USDC |-> 20, USDT |-> 10, DAI |-> 5, ETH |-> 65]

\* a plan at risk level 80 took the emergency allocation
EmergencyAt80Witness ==
    /\ plan_out.planned
    /\ plan_in.risk_level = 80
    /\ plan_out.target_allocation.ETH = 0
    /\ plan_out.action = "EMERGENCY: Full flight to stablecoins"

\* C24: for every risk_level the shares of target_allocation are
\* non-negative and sum to 1.0.
AllocationSumsToOne ==
    plan_out.planned =>
        LET a == plan_out.target_allocation
        IN /\ \A k \in DOMAIN a : a[k] >= 0
           /\ a.USDC + a.USDT + a.DAI + a.ETH = 100

\* a plan below risk level 60 took the cautious allocation
CautiousAt59Witness ==
    /\ plan_out.planned
    /\ plan_in.risk_level = 59
    /\ plan_out.target_allocation.ETH = 65
    /\ plan_out.action = "CAUTIOUS: Slight defensive tilt"

\* C25: top_risk_signals are the 3 highest-scoring entries of the signal map
\* (all of them if fewer than 3) by descending score, and entries of equal
\* score are ordered by signal name ascending, whatever their order in the
\* map.
TopSignalsByScoreThenName ==
    plan_out.planned =>
        LET sigs == plan_in.signals
            n == Len(sigs)
            \* the place of a name in the alphabet
            NameRank(name) ==
                CASE name = "bridge_anomaly" -> 1
                  [] name = "funding_rates" -> 2
                  [] name = "liquidation_vol" -> 3
                  [] name = "realized_vol" -> 4
                  [] name = "stablecoin_depeg" -> 5
                  [] name = "tvl_drawdown" -> 6
            Precedes(x, y) ==
                \/ x.score > y.score
                \/ x.score = y.score /\ NameRank(x.name) < NameRank(y.name)
            Place(x) == Cardinality({j \in 1..n : Precedes(sigs[j], x)}) + 1
            top == plan_out.top_risk_signals
        IN /\ Len(top) = (IF n > 3 THEN 3 ELSE n)
           /\ \A k \in 1..Len(top) :
                 /\ \E i \in 1..n : top[k] = sigs[i]
                 /\ Place(top[k]) = k

(***************************************************************************)
(* The scoring engine of the package, agent/src/tail_risk_agent.           *)
(* The components of an input are in hundredths (0.33 is 33), a score in   *)
(* ten-thousandths (0.33 is 3300).                                         *)
(***************************************************************************)
\* score 20: the weighted sum of the components
raw_score(x) ==
    x.volatility_30d * 45 + x.drawdown_7d * 35 + x.stablecoin_depeg_risk * 20

\* variant: a sum above 1.0 is sent to 0.0
clamp_reset(raw) == IF raw < 0 \/ raw > 10000 THEN 0 ELSE raw

\* score 21: max(0.0, min(1.0, raw))
clamp(raw) == IF raw < 0 THEN 0 ELSE IF raw > 10000 THEN 10000 ELSE raw

\* variant: a score equal to a threshold stays in the tier below
tier_of_inclusive(s) == IF s <= 3300 THEN 1 ELSE IF s <= 6600 THEN 2 ELSE 3

\* score 23-27: the tier of a score
tier_of(s) == IF s < 3300 THEN 1 ELSE IF s < 6600 THEN 2 ELSE 3

\* score 24, 26 and 27: the premium of a tier
premium_bps_of(tier) == CASE tier = 1 -> 120 [] tier = 2 -> 280 [] tier = 3 -> 550

\* TailRiskEngine.score 19-27
score_of(x) ==
    LET s == clamp(raw_score(x))
    IN [score |-> s, premium_bps |-> premium_bps_of(tier_of(s)), tier |-> tier_of(s)]

\* engine.score(x) is called for the next input
score ==
    /\ Len(tail_out) < Len(tail_in)
    /\ tail_out' = Append(tail_out, score_of(tail_in[Len(tail_out) + 1]))
    /\ UNCHANGED tail_in
    /\ UNCHANGED <<loopVars, riskVars, claimVars, quoteVars, planVars>>

\* RiskInput 4-8
RiskInput(v, d, p) == [volatility_30d |-> v, drawdown_7d |-> d, stablecoin_depeg_risk |-> p]

\* the component values of the inputs: below 0, the tier thresholds, 1.0
Components == {-100, 0, 33, 66, 100}

\* the inputs of tests/test_risk_engine.py 7-8, 17-19 and 29-30, and two
\* inputs just below the tier thresholds
TestInputs ==
    {RiskInput(-100, 0, 0), RiskInput(500, 500, 500),
     RiskInput(10, 10, 10), RiskInput(50, 50, 50), RiskInput(95, 95, 95),
     RiskInput(20, 10, 5), RiskInput(80, 60, 40),
     RiskInput(32, 33, 34), RiskInput(65, 66, 66)}

RiskInputs ==
    {RiskInput(v, d, p) : v \in Components, d \in Components, p \in Components}
      \cup TestInputs

InitTail ==
    /\ InitLoop
    /\ InitRisk
    /\ InitClaimIdle /\ InitQuoteIdle /\ InitPlanIdle
    /\ \E a \in RiskInputs, b \in RiskInputs : tail_in = <<a, b>>
    /\ tail_out = << >>

NextTail == score

SpecTail == InitTail /\ [][NextTail]_vars

\* C26: for every input, components below 0 and above 1 included, the score
\* is 0.45 * volatility + 0.35 * drawdown + 0.20 * depeg clamped to [0, 1];
\* a score below 0.33 gives tier 1 and 120 bps, a score from 0.33 and below
\* 0.66 tier 2 and 280 bps, any other tier 3 and 550 bps.
ScoreClampedAndTiered ==
    \A i \in 1..Len(tail_out) :
        LET x == tail_in[i]
            o == tail_out[i]
            sum == 45 * x.volatility_30d + 35 * x.drawdown_7d
                     + 20 * x.stablecoin_depeg_risk
        IN /\ o.score >= 0 /\ o.score <= 10000
           /\ sum < 0 => o.score = 0
           /\ sum > 10000 => o.score = 10000
           /\ (sum >= 0 /\ sum <= 10000) => o.score = sum
           /\ o.score < 3300 => (o.tier = 1 /\ o.premium_bps = 120)
           /\ (o.score >= 3300 /\ o.score < 6600) => (o.tier = 2 /\ o.premium_bps = 280)
           /\ o.score >= 6600 => (o.tier = 3 /\ o.premium_bps = 550)

\* components of 0.33 give a score of exactly 0.33, which is tier 2; the
\* input of the test with components of 5.0 gave 1.0 before
ScoreAtThresholdWitness ==
    /\ Len(tail_out) = 2
    /\ tail_in[1] = RiskInput(500, 500, 500)
    /\ tail_out[1] = [score |-> 10000, premium_bps |-> 550, tier |-> 3]
    /\ tail_in[2] = RiskInput(33, 33, 33)
    /\ tail_out[2] = [score |-> 3300, premium_bps |-> 280, tier |-> 2]

\* C27: when every component of input a is at most that of input b, score,
\* tier and premium_bps of a are at most those of b; when both weighted sums
\* lie in [0, 1] and the sum of b is larger, the score of b is larger.
ScoreMonotone ==
    Len(tail_out) = 2 =>
        LET a == tail_in[1]
            b == tail_in[2]
            sum(x) == 45 * x.volatility_30d + 35 * x.drawdown_7d
                        + 20 * x.stablecoin_depeg_risk
            inside(x) == sum(x) >= 0 /\ sum(x) <= 10000
        IN /\ (/\ a.volatility_30d <= b.volatility_30d
               /\ a.drawdown_7d <= b.drawdown_7d
               /\ a.stablecoin_depeg_risk <= b.stablecoin_depeg_risk) =>
                 /\ tail_out[1].score <= tail_out[2].score
                 /\ tail_out[1].tier <= tail_out[2].tier
                 /\ tail_out[1].premium_bps <= tail_out[2].premium_bps
           /\ (inside(a) /\ inside(b) /\ sum(a) < sum(b)) =>
                 tail_out[1].score < tail_out[2].score

\* the two inputs of test_higher_risk_signals_raise_score, scored in turn
StressedAboveConservativeWitness ==
    /\ Len(tail_out) = 2
    /\ tail_in[1] = RiskInput(20, 10, 5)
    /\ tail_in[2] = RiskInput(80, 60, 40)
    /\ tail_out[1] = [score |-> 1350, premium_bps |-> 120, tier |-> 1]
    /\ tail_out[2] = [score |-> 6500, premium_bps |-> 280, tier |-> 2]

(***************************************************************************)
(* Properties of the policy scan and of the counters of the loop.          *)
(***************************************************************************)
\* C28: when the model fails or its reply cannot be parsed, assess_claim
\* returns should_pay false with confidence 0.0 and no payout is submitted for
\* the policy; a reply without should_pay or without confidence leads to no
\* payout either.
AssessmentFailureNeverPays ==
    [][pc = "assessing" =>
         /\ response'.kind \in {"raised", "unparsable"} =>
               /\ decision' = [should_pay |-> FALSE, confidence |-> 0]
               /\ pc' # "paying"
               /\ submitted' = submitted
               /\ inflight' = inflight
               /\ stats'.claims_paid = stats.claims_paid
               /\ stats'.claims_rejected = stats.claims_rejected
         /\ (/\ response'.kind = "json"
             /\ \/ response'.should_pay = "absent"
                \/ response'.confidence = NoValue) =>
               /\ pc' # "paying"
               /\ submitted' = submitted
               /\ inflight' = inflight
               /\ stats'.claims_paid = stats.claims_paid
               /\ stats'.claims_rejected = stats.claims_rejected]_vars

\* the call of the model raised for policy 1: the policy was assessed, the
\* decision is the conservative one and the scan is at policy 2 with nothing
\* submitted
ModelRaisedNothingPaidWitness ==
    /\ response.kind = "raised"
    /\ decision = [should_pay |-> FALSE, confidence |-> 0]
    /\ pc = "scan"
    /\ policy_id = 2
    /\ assessed = {1}
    /\ submitted = << >>

\* C29: an exception raised while one policy is read or assessed ends the
\* iteration of that policy only: the scan goes on with the next id exactly
\* as after a policy that is skipped (or ends normally after the last id),
\* the cycle is not aborted, nothing is submitted for the policy and no
\* counter, errors included, changes.
ScanErrorContained ==
    [][(scan_error' # 0 /\ scan_error' # scan_error) =>
         /\ pc \in {"scan", "assessing"}
         /\ scan_error' = policy_id
         /\ stats' = stats
         /\ submitted' = submitted
         /\ inflight' = inflight
         /\ assessed' = assessed
         /\ running' = running
         /\ cycle_count' = cycle_count
         /\ cycle_outcome' # "raised"
         /\ policy' = NoPolicy
         /\ IF policy_id < ScanLimit
            THEN /\ pc' = "scan"
                 /\ policy_id' = policy_id + 1
                 /\ current_vol' = current_vol
                 /\ cycle_outcome' = "in_progress"
            ELSE /\ pc' = "sleep"
                 /\ cycle_outcome' = "completed"]_vars

\* the reply for policy 1 made the log call raise after the policy had been
\* assessed: the scan is at policy 2 in the same cycle, nothing was submitted
\* and the errors counter is still 0
ScanGoesOnAfterErrorWitness ==
    /\ scan_error = 1
    /\ response.reasoning = "null"
    /\ pc = "scan"
    /\ policy_id = 2
    /\ assessed = {1}
    /\ submitted = << >>
    /\ cycle_outcome = "in_progress"
    /\ stats.errors = 0

\* C30: the counters never decrease and only a step of the loop changes them;
\* cycles is the number of cycles started, vol_updates grows by one exactly
\* when a volatility submission succeeds, and claims_paid + claims_rejected
\* never exceeds claims_assessed.
CountersFollowTheLoop ==
    [][/\ \A k \in DOMAIN stats : stats'[k] >= stats[k]
       /\ (running' # running \/ pc' = "cancelled") => stats' = stats
       /\ stats.cycles = cycle_count
       /\ stats'.cycles = cycle_count'
       /\ stats'.cycles # stats.cycles =>
             (pc = "loop_top" /\ stats'.cycles = stats.cycles + 1)
       /\ stats'.vol_updates # stats.vol_updates <=>
             (/\ pc = "vol_fetch"
              /\ pc' \notin {"vol_fetch", "cancelled"}
              /\ last_submit' = [kind |-> "vol", id |-> 0, ok |-> TRUE])
       /\ stats'.vol_updates # stats.vol_updates =>
             stats'.vol_updates = stats.vol_updates + 1
       /\ stats.claims_paid + stats.claims_rejected <= stats.claims_assessed
       /\ stats'.claims_paid + stats'.claims_rejected <= stats'.claims_assessed]_vars

\* two cycles were started, one volatility submission succeeded, and of the
\* two assessed claims one was paid and one was rejected
CountersAfterTwoCyclesWitness ==
    /\ cycle_count = 2
    /\ stats.cycles = 2
    /\ stats.vol_updates = 1
    /\ stats.claims_assessed = 2
    /\ stats.claims_paid = 1
    /\ stats.claims_rejected = 1

====
